---- MODULE Spec2Model ----
(***************************************************************************)
(* Progressive jackpot program (programs/progressive-jackpot).             *)
(*                                                                         *)
(* The accounts of the program are the state; every instruction handler is *)
(* an operator that maps the accounts and the instruction's inputs to an   *)
(* outcome (an error name, or "Ok" and the accounts as the handler leaves  *)
(* them), and an action that commits the outcome only when it is "Ok": a   *)
(* failed instruction aborts the transaction and nothing is written back.  *)
(*                                                                         *)
(* u64 arithmetic keeps its 64-bit width.  A value that takes part in      *)
(* checked arithmetic is a sequence of decimal digits, least significant   *)
(* first, so that a product such as staked * apy * elapsed is computed     *)
(* exactly and compared with u64::MAX; the accounts store the (small)      *)
(* values the bounded inputs produce as plain integers.                    *)
(***************************************************************************)
EXTENDS Integers, Sequences, FiniteSets, TLC

VARIABLES config, pool, reward_vault, bets, vrf_requests, reward_claims,
          lamports, now, last, hist

vars == <<config, pool, reward_vault, bets, vrf_requests, reward_claims,
          lamports, now, last, hist>>

accounts == <<config, pool, reward_vault, bets, vrf_requests, reward_claims,
              lamports>>

(***************************************************************************)
(* Bounds of the model                                                     *)
(***************************************************************************)
\* bets placed in one behaviour
MaxBets == 2
\* clock advances in one behaviour
MaxTicks == 2
\* successful instructions in one behaviour
MaxCalls == 4
\* lamports every wallet starts with
InitialLamports == 5000
\* seconds the clock advances in one step
TickStep == 1800
\* unix time at which the program is initialized
StartTime == 1000

(***************************************************************************)
(* Program constants                                                       *)
(***************************************************************************)
\* fulfill_jackpot.rs: let timeout: i64 = 3600
timeout == 3600
\* claim_rewards.rs: let year_seconds: i64 = 31536000
year_seconds == 31536000
\* the denominator of a basis-point share
BPS_DENOMINATOR == 10000
\* initialize.rs: reward_vault.distribution_period = 86400
DISTRIBUTION_PERIOD == 86400
\* u16::MAX, the largest value of a percentage parameter
U16_MAX == 65535

(***************************************************************************)
(* Decimal digit arithmetic                                                *)
(***************************************************************************)
RECURSIVE Digits(_)
Digits(n) == IF n < 10 THEN <<n>> ELSE <<n % 10>> \o Digits(n \div 10)

RECURSIVE Value(_)
Value(d) == IF Len(d) = 1 THEN d[1] ELSE d[1] + 10 * Value(Tail(d))

RECURSIVE Normalize(_)
Normalize(d) ==
    IF Len(d) > 1 /\ d[Len(d)] = 0 THEN Normalize(SubSeq(d, 1, Len(d) - 1))
    ELSE d

RECURSIVE DigitsLess(_, _, _)
\* x < y for two normalized digit sequences of the same length, from digit i down
DigitsLess(x, y, i) ==
    IF i = 0 THEN FALSE
    ELSE IF x[i] # y[i] THEN x[i] < y[i]
    ELSE DigitsLess(x, y, i - 1)

Less(x, y) ==
    IF Len(x) # Len(y) THEN Len(x) < Len(y) ELSE DigitsLess(x, y, Len(x))

LessEq(x, y) == x = y \/ Less(x, y)

DigitAt(x, i) == IF i <= Len(x) THEN x[i] ELSE 0

RECURSIVE AddFrom(_, _, _, _)
AddFrom(x, y, i, carry) ==
    IF i > Len(x) /\ i > Len(y)
    THEN (IF carry = 0 THEN << >> ELSE <<carry>>)
    ELSE LET s == DigitAt(x, i) + DigitAt(y, i) + carry
         IN  <<s % 10>> \o AddFrom(x, y, i + 1, s \div 10)

Add(x, y) == Normalize(AddFrom(x, y, 1, 0))

RECURSIVE SubFrom(_, _, _, _)
\* x - y for y <= x
SubFrom(x, y, i, borrow) ==
    IF i > Len(x) THEN << >>
    ELSE LET s == DigitAt(x, i) - DigitAt(y, i) - borrow
         IN  IF s < 0 THEN <<s + 10>> \o SubFrom(x, y, i + 1, 1)
             ELSE <<s>> \o SubFrom(x, y, i + 1, 0)

Sub(x, y) == Normalize(SubFrom(x, y, 1, 0))

RECURSIVE MulFrom(_, _, _, _)
\* x * k for an integer 0 <= k <= 10^8
MulFrom(x, k, i, carry) ==
    IF i > Len(x)
    THEN (IF carry = 0 THEN << >> ELSE Digits(carry))
    ELSE LET s == x[i] * k + carry
         IN  <<s % 10>> \o MulFrom(x, k, i + 1, s \div 10)

Mul(x, k) == Normalize(MulFrom(x, k, 1, 0) \o <<0>>)

RECURSIVE DivFrom(_, _, _, _)
\* the quotient digits of x \div d, most significant first, for 0 < d <= 10^8
DivFrom(x, d, i, rem) ==
    IF i = 0 THEN << >>
    ELSE LET cur == rem * 10 + x[i]
         IN  <<cur \div d>> \o DivFrom(x, d, i - 1, cur % d)

Reverse(s) == [i \in 1..Len(s) |-> s[Len(s) + 1 - i]]

Div(x, d) == Normalize(Reverse(DivFrom(x, d, Len(x), 0)))

(***************************************************************************)
(* u64 checked arithmetic (core::num).  An Option<u64> is NoneU64, or a    *)
(* value: an integer while it is at most NativeLimit, its decimal digits   *)
(* above that.  A None operand stays None, which is Option::and_then.      *)
(***************************************************************************)
\* u64::MAX = 18446744073709551615
U64_MAX == <<5, 1, 6, 1, 5, 5, 9, 0, 7, 3, 7, 0, 4, 4, 7, 6, 4, 4, 8, 1>>

\* values up to this one are held as integers (it has 10 digits)
NativeLimit == 1000000000

NoneU64 == [tag |-> "none"]

U64(n) == [tag |-> "int", v |-> n]

IsNone(x) == x.tag = "none"

\* the digits of a value
DigitsOf(x) == IF x.tag = "int" THEN Digits(x.v) ELSE x.d

\* the value with the digits d, None when it exceeds u64::MAX
FromDigits(d) ==
    IF ~LessEq(d, U64_MAX) THEN NoneU64
    ELSE IF LessEq(d, Digits(NativeLimit)) THEN U64(Value(d))
    ELSE [tag |-> "big", d |-> d]

checked_mul(x, k) ==
    IF IsNone(x) THEN NoneU64
    ELSE IF x.tag = "int" /\ (x.v = 0 \/ k <= NativeLimit \div x.v) THEN U64(x.v * k)
    ELSE FromDigits(Mul(DigitsOf(x), k))

checked_div(x, d) ==
    IF IsNone(x) \/ d = 0 THEN NoneU64
    ELSE IF x.tag = "int" THEN U64(x.v \div d)
    ELSE FromDigits(Div(x.d, d))

checked_add(x, k) ==
    IF IsNone(x) THEN NoneU64
    ELSE IF x.tag = "int" /\ x.v + k <= NativeLimit THEN U64(x.v + k)
    ELSE FromDigits(Add(DigitsOf(x), Digits(k)))

checked_sub(x, k) ==
    IF IsNone(x) THEN NoneU64
    ELSE IF x.tag = "int" THEN (IF x.v < k THEN NoneU64 ELSE U64(x.v - k))
    ELSE IF Less(x.d, Digits(k)) THEN NoneU64
    ELSE FromDigits(Sub(x.d, Digits(k)))

\* Option<u16>
NoneU16 == -1

\* u16::checked_add
checked_add_u16(a, b) ==
    IF a = NoneU16 \/ b = NoneU16 \/ a + b > U16_MAX THEN NoneU16 ELSE a + b

\* Option<T> of the account fields: None, or Some(x)
None == << >>

(***************************************************************************)
(* Keys, options and inputs                                                *)
(***************************************************************************)
Some(x) == <<x>>

Unwrap(o) == o[1]

\* Pubkey::default()
DefaultPubkey == <<"default">>

Wallet(name) == <<name>>

Authority == Wallet("authority")

Players == {Wallet("alice"), Wallet("bob")}

\* the account the callers pass as house_vault
HouseVault == Wallet("house_vault")

\* the program derived addresses (seeds of the #[account] constraints)
ConfigPda == <<"config">>

PoolPda == <<"pool">>

RewardVaultPda == <<"reward_vault">>

BetPda(player, amount) == <<"bet", player[1], amount>>

VrfRequestPda(bet_key) == <<"vrf_request", bet_key[2], bet_key[3]>>

RewardClaimPda(user) == <<"reward_claim", user[1]>>

\* lamports a program account holds for rent when it is created
RentLamports == 1000

\* amounts the players bet
BetAmounts == {10, 1000}

\* amounts below min_bet and above max_bet, and one between the bounds an
\* update of min_bet alone leaves (max_bet = 1000 < 1500 < min_bet = 2000)
RejectedAmounts == {5, 1500, 3000}

Zeros(n) == [i \in 1..n |-> 0]

\* a 32-byte VRF result whose first three bytes are b1, b2, b3
VrfBytes(b1, b2, b3) == <<b1, b2, b3>> \o Zeros(29)

\* the u64 values 70050, 400, 900 and 1500 in little-endian bytes
VrfResults ==
    { VrfBytes(162, 17, 1), VrfBytes(144, 1, 0), VrfBytes(132, 3, 0),
      VrfBytes(220, 5, 0) }

RECURSIVE to_le_bytes(_, _)
\* i64::to_le_bytes of a non-negative value: n bytes, least significant first
to_le_bytes(v, n) ==
    IF n = 0 THEN << >> ELSE <<v % 256>> \o to_le_bytes(v \div 256, n - 1)

RECURSIVE from_le_bytes(_, _)
\* u64::from_le_bytes of bytes i..8 of b (it cannot overflow)
from_le_bytes(b, i) ==
    IF i = 8 THEN U64(b[8])
    ELSE checked_add(checked_mul(from_le_bytes(b, i + 1), 256), b[i])

\* x % d for d = 10000: the last four decimal digits
rem_10000(x) ==
    IF x.tag = "int" THEN x.v % 10000 ELSE Value(SubSeq(x.d, 1, 4))

(***************************************************************************)
(* Outcomes and transfers                                                  *)
(***************************************************************************)
Fail(e) == [err |-> e]

\* **to.try_borrow_mut_lamports()? += x;  **from.try_borrow_mut_lamports()? -= x;
\* a debit below zero fails the instruction
CanTransfer(l, from, to, x) ==
    IF from = to THEN TRUE ELSE l[from] >= x

Transfer(l, from, to, x) ==
    IF from = to THEN l
    ELSE [l EXCEPT ![to] = l[to] + x, ![from] = l[from] - x]

(***************************************************************************)
(* initialize                                                              *)
(***************************************************************************)
initialize(authority, p, clock) ==
    LET total_percentage ==
            checked_add_u16(checked_add_u16(p.jackpot_percentage, p.house_percentage),
                            p.defi_percentage)
    IN  IF total_percentage = NoneU16 THEN Fail("MathOverflow")
        ELSE IF ~(total_percentage <= 10000) THEN Fail("InvalidConfig")
        ELSE IF ~(p.min_bet > 0 /\ p.max_bet >= p.min_bet) THEN Fail("InvalidConfig")
        ELSE IF ~(p.win_probability_bps > 0 /\ p.win_probability_bps <= 10000)
             THEN Fail("InvalidConfig")
        ELSE IF ~(p.vrf_provider <= 1) THEN Fail("InvalidConfig")
        ELSE [ err |-> "Ok",
               config |->
                 [ authority |-> authority,
                   jackpot_percentage |-> p.jackpot_percentage,
                   house_percentage |-> p.house_percentage,
                   defi_percentage |-> p.defi_percentage,
                   min_bet |-> p.min_bet,
                   max_bet |-> p.max_bet,
                   win_probability_bps |-> p.win_probability_bps,
                   vrf_provider |-> p.vrf_provider,
                   total_bets |-> 0,
                   total_wins |-> 0 ],
               pool |->
                 [ balance |-> 0,
                   last_winner |-> None,
                   last_win_timestamp |-> None,
                   reset_threshold |-> p.reset_threshold,
                   bets_since_win |-> 0,
                   milestone_bets |-> p.milestone_bets ],
               reward_vault |->
                 [ staked_amount |-> 0,
                   total_rewards_distributed |-> 0,
                   last_distribution |-> clock,
                   distribution_period |-> DISTRIBUTION_PERIOD,
                   apy_bps |-> p.apy_bps ] ]

\* the parameters the deployments of the model are initialized with; the
\* third percentage split and the last two bet bounds are rejected
InitPercentages == { <<5000, 2500, 2500>>, <<3333, 3333, 3334>>, <<6000, 3000, 2000>> }

InitBetBounds == { <<10, 1000>>, <<0, 10>>, <<20, 10>> }

\* reset_threshold and milestone_bets
InitPoolParams == { <<300, 2>> }

InitParams ==
    { [ jackpot_percentage |-> pc[1], house_percentage |-> pc[2],
        defi_percentage |-> pc[3], min_bet |-> bb[1], max_bet |-> bb[2],
        win_probability_bps |-> 1000, vrf_provider |-> 0,
        reset_threshold |-> pp[1], milestone_bets |-> pp[2], apy_bps |-> 10000 ] :
      pc \in InitPercentages, bb \in InitBetBounds, pp \in InitPoolParams }

Init ==
    \E p \in InitParams :
        LET r == initialize(Authority, p, StartTime)
        IN  /\ r.err = "Ok"
            /\ config = r.config
            /\ pool = r.pool
            /\ reward_vault = r.reward_vault
            /\ bets = << >>
            /\ vrf_requests = << >>
            /\ reward_claims = << >>
            /\ lamports =
                 [a \in Players \cup {Authority, HouseVault, PoolPda, RewardVaultPda} |->
                    IF a \in Players THEN InitialLamports
                    ELSE IF a \in {PoolPda, RewardVaultPda} THEN RentLamports
                    ELSE 0]
            /\ now = StartTime
            /\ last = [op |-> "initialize", err |-> "Ok"]
            /\ hist = [credited |-> 0, debited |-> 0, calls |-> 0, ticks |-> 0]

(***************************************************************************)
(* contribute_bet                                                          *)
(***************************************************************************)
\* a share that rounds up where the program floors
share_rounded_up(amount, percentage) ==
    checked_div(checked_add(checked_mul(U64(amount), percentage), 9999),
                BPS_DENOMINATOR)

\* a share that is clamped to the largest product instead of failing
share_u64_saturating(amount, percentage) ==
    IF IsNone(checked_mul(amount, percentage))
    THEN checked_div(FromDigits(U64_MAX), BPS_DENOMINATOR)
    ELSE checked_div(checked_mul(amount, percentage), BPS_DENOMINATOR)

\* the share of a u64 amount of any size
share_u64(amount, percentage) ==
    checked_div(checked_mul(amount, percentage), BPS_DENOMINATOR)

\* amount.checked_mul(percentage as u64).and_then(|x| x.checked_div(10000))
share(amount, percentage) == share_u64(U64(amount), percentage)

\* lines 17-41 of contribute_bet on a u64 amount of any size: the two
\* bound checks, then the three shares
validated_shares(amount, min_bet, max_bet, jackpot_percentage, house_percentage, defi_percentage) ==
    LET jc == share_u64(amount, jackpot_percentage)
        hf == share_u64(amount, house_percentage)
        dc == share_u64(amount, defi_percentage)
    IN  IF ~LessEq(DigitsOf(min_bet), DigitsOf(amount)) THEN Fail("BetTooSmall")
        ELSE IF ~LessEq(DigitsOf(amount), DigitsOf(max_bet)) THEN Fail("BetTooLarge")
        ELSE IF IsNone(jc) \/ IsNone(hf) \/ IsNone(dc) THEN Fail("MathOverflow")
        ELSE [ err |-> "Ok", jackpot_contribution |-> jc, house_fee |-> hf,
               defi_contribution |-> dc ]

\* the request id: the 8 bytes of the request time, zero-padded to 32
request_id_bytes(clock) == to_le_bytes(clock, 8) \o Zeros(24)

\* #[derive(Default)] VrfRequest, as `init` leaves the account
DefaultVrfRequest ==
    [ bet |-> DefaultPubkey, player |-> DefaultPubkey, timestamp |-> 0,
      request_id |-> Zeros(32), status |-> 0, result |-> None ]

\* a credit of twice the contribution
credit_pool_twice(balance, amount) == checked_add(U64(balance), 2 * amount)

\* pool.balance.checked_add(jackpot_contribution)
credit_pool(balance, amount) == checked_add(U64(balance), amount)

\* a milestone that must be exceeded
should_trigger_vrf_past_milestone(p) ==
    IF p.milestone_bets > 0 THEN p.bets_since_win > p.milestone_bets ELSE TRUE

\* if pool.milestone_bets > 0 { pool.bets_since_win >= pool.milestone_bets }
\* else { true }
should_trigger_vrf(p) ==
    IF p.milestone_bets > 0 THEN p.bets_since_win >= p.milestone_bets ELSE TRUE

\* a lower bound that only asks for a positive amount
bet_large_enough_positive(amount) == amount > 0

\* require!(amount >= config.min_bet)
bet_large_enough(amount) == amount >= config.min_bet

\* require!(amount <= config.max_bet)
bet_small_enough(amount) == amount <= config.max_bet

\* an address check that lets the address of a resolved bet be used again
address_in_use_while_pending(bet_key, vrf_key) ==
    bet_key \in DOMAIN bets /\ bets[bet_key].status = 0

\* #[account(init)] of bet and vrf_request: the addresses must be unused
address_in_use(bet_key, vrf_key) ==
    bet_key \in DOMAIN bets \/ vrf_key \in DOMAIN vrf_requests

contribute_bet(player, amount, house_vault) ==
    LET bet_key == BetPda(player, amount)
        vrf_key == VrfRequestPda(bet_key)
        jc == share(amount, config.jackpot_percentage)
        hf == share(amount, config.house_percentage)
        dc == share(amount, config.defi_percentage)
        jackpot_contribution == jc.v
        house_fee == hf.v
        defi_contribution == dc.v
        l1 == Transfer(lamports, player, PoolPda, jackpot_contribution)
        l2 == Transfer(l1, player, house_vault, house_fee)
        l3 == Transfer(l2, player, RewardVaultPda, defi_contribution)
        balance == credit_pool(pool.balance, jackpot_contribution)
        bets_since_win == checked_add(U64(pool.bets_since_win), 1)
        total_bets == checked_add(U64(config.total_bets), 1)
        staked_amount == checked_add(U64(reward_vault.staked_amount), defi_contribution)
        pool1 == [pool EXCEPT !.balance = balance.v,
                              !.bets_since_win = bets_since_win.v]
        trigger == should_trigger_vrf(pool1)
        request_id == request_id_bytes(now)
        vrf_request ==
            IF trigger
            THEN [ bet |-> bet_key, player |-> player, timestamp |-> now,
                   request_id |-> request_id, status |-> 0, result |-> None ]
            ELSE DefaultVrfRequest
        bet == [ player |-> player, amount |-> amount, timestamp |-> now,
                 vrf_request_id |-> IF trigger THEN Some(vrf_request.request_id) ELSE None,
                 status |-> 0, win_amount |-> 0 ]
    IN  IF address_in_use(bet_key, vrf_key) THEN Fail("AccountAlreadyInUse")
        ELSE IF ~bet_large_enough(amount) THEN Fail("BetTooSmall")
        ELSE IF ~bet_small_enough(amount) THEN Fail("BetTooLarge")
        ELSE IF IsNone(jc) \/ IsNone(hf) \/ IsNone(dc) THEN Fail("MathOverflow")
        ELSE IF ~CanTransfer(lamports, player, PoolPda, jackpot_contribution)
                \/ ~CanTransfer(l1, player, house_vault, house_fee)
                \/ ~CanTransfer(l2, player, RewardVaultPda, defi_contribution)
             THEN Fail("InsufficientLamports")
        ELSE IF IsNone(balance) \/ IsNone(bets_since_win) \/ IsNone(total_bets)
                \/ IsNone(staked_amount)
             THEN Fail("MathOverflow")
        ELSE [ err |-> "Ok",
               config |-> [config EXCEPT !.total_bets = total_bets.v],
               pool |-> pool1,
               reward_vault |->
                 [reward_vault EXCEPT !.staked_amount = staked_amount.v],
               bets |-> bets @@ (bet_key :> bet),
               vrf_requests |-> vrf_requests @@ (vrf_key :> vrf_request),
               lamports |-> l3,
               jackpot_contribution |-> jackpot_contribution,
               house_fee |-> house_fee,
               defi_contribution |-> defi_contribution,
               triggered |-> trigger ]

ContributeBet ==
    \E player \in Players, amount \in BetAmounts \cup RejectedAmounts :
        LET r == contribute_bet(player, amount, HouseVault)
        IN  /\ hist.calls < MaxCalls
            /\ config.total_bets < MaxBets
            /\ IF r.err = "Ok"
               THEN /\ config' = r.config
                    /\ pool' = r.pool
                    /\ reward_vault' = r.reward_vault
                    /\ bets' = r.bets
                    /\ vrf_requests' = r.vrf_requests
                    /\ lamports' = r.lamports
                    /\ hist' = [hist EXCEPT !.credited = @ + r.jackpot_contribution,
                                        !.calls = @ + 1]
                    /\ last' = [ op |-> "contribute_bet", err |-> "Ok",
                                 player |-> player, amount |-> amount,
                                 jackpot_contribution |-> r.jackpot_contribution,
                                 house_fee |-> r.house_fee,
                                 defi_contribution |-> r.defi_contribution ]
               ELSE /\ UNCHANGED <<accounts, hist>>
                    /\ last' = [op |-> "contribute_bet", err |-> r.err]
            /\ UNCHANGED <<reward_claims, now>>

(***************************************************************************)
(* fulfill_jackpot                                                         *)
(***************************************************************************)
\* 32-byte random values: the four of the fulfilments, two whose high bytes
\* are set, the largest and the smallest
WinVrfResults ==
    VrfResults \cup
    { <<226, 57, 107, 93, 84, 220, 43, 0>> \o Zeros(24),
      <<255, 255, 255, 255, 255, 255, 255, 255>> \o Zeros(24),
      <<99, 0, 0, 0, 0, 0, 0, 128>> \o Zeros(24),
      <<100, 0, 0, 0, 0, 0, 0, 0>> \o <<7>> \o Zeros(23),
      Zeros(32) }

\* u64::from_le_bytes of the first 8 bytes, % 10000
vrf_mod_of(vrf_result) == rem_10000(from_le_bytes(vrf_result, 1))

\* vrf_mod_of, computed once for each random value
vrf_mod_table == [r \in WinVrfResults |-> vrf_mod_of(r)]

vrf_mod(vrf_result) == vrf_mod_table[vrf_result]

is_win(m, win_threshold) == m < win_threshold

\* tiers whose boundaries include the boundary value
win_multiplier_inclusive(m, win_threshold) ==
    IF m <= win_threshold \div 10 THEN 10000
    ELSE IF m <= win_threshold \div 2 THEN 5000
    ELSE 2500

win_multiplier(m, win_threshold) ==
    IF m < win_threshold \div 10 THEN 10000
    ELSE IF m < win_threshold \div 2 THEN 5000
    ELSE 2500

\* a payout that scales the multiplier as a percentage
win_amount_of_percent(balance, multiplier) ==
    checked_div(checked_mul(U64(balance), multiplier), 100)

\* the payout of a u64 balance of any size
win_amount_u64(balance, multiplier) ==
    checked_div(checked_mul(balance, multiplier), BPS_DENOMINATOR)

\* pool.balance.checked_mul(win_multiplier).and_then(|x| x.checked_div(10000))
win_amount_of(balance, multiplier) == win_amount_u64(U64(balance), multiplier)

\* lines 63-71 of fulfill_jackpot on a u64 balance of any size
payout_checks(balance, multiplier) ==
    LET win_amount == win_amount_u64(balance, multiplier)
    IN  IF IsNone(win_amount) THEN Fail("MathOverflow")
        ELSE IF ~LessEq(DigitsOf(win_amount), DigitsOf(balance))
             THEN Fail("InsufficientFunds")
        ELSE [err |-> "Ok", win_amount |-> win_amount]

\* a payout that leaves the recorded balance as it was
debit_pool_forgotten(balance, payout) == U64(balance)

\* pool.balance.checked_sub(payout), of a win and of a reset
debit_pool(balance, payout) == checked_sub(U64(balance), payout)

\* the win decision, the tier and the payout of a fulfilment
win_determination(vrf_result, win_probability_bps, balance) ==
    LET win_threshold == win_probability_bps
        m == vrf_mod(vrf_result)
        multiplier == win_multiplier(m, win_threshold)
    IN  [ vrf_mod |-> m,
          win |-> is_win(m, win_threshold),
          multiplier |-> multiplier,
          win_amount |-> win_amount_of(balance, multiplier) ]

\* the account whose lamports are credited and whose key becomes last_winner:
\* ctx.accounts.player, the account the caller passes
payout_account(bet, player) == player

\* the reset check of the pool
should_reset(p) == p.balance >= p.reset_threshold /\ p.reset_threshold > 0

\* a status check that also lets a fulfilled request through
request_pending_or_fulfilled(request) == request.status \in {0, 1}

\* the status check of the request
request_pending(request) == request.status = 0

\* a check that also accepts a request account that was never opened
request_of_bet_or_unopened(request, bet_key) ==
    request.bet = bet_key \/ request.bet = DefaultPubkey

\* a check that compares the players instead of the bet
request_of_player(request, bet_key) == request.player = bets[bet_key].player

\* the check that the request references the bet
request_of_bet(request, bet_key) == request.bet = bet_key

\* a window that still accepts a result at exactly `timeout` seconds
within_timeout_inclusive(clock, request) == clock - request.timestamp <= timeout

\* the timeout check of the request
within_timeout(clock, request) == clock - request.timestamp < timeout

\* a winning bet that is recorded as lost
won_bet_marked_lost(bet, win_amount) ==
    [bet EXCEPT !.status = 2, !.win_amount = win_amount]

\* bet.status = 1; bet.win_amount = win_amount
won_bet(bet, win_amount) == [bet EXCEPT !.status = 1, !.win_amount = win_amount]

\* a lost bet that records its stake as the amount won
lost_bet_with_stake(bet) == [bet EXCEPT !.status = 2, !.win_amount = bet.amount]

\* bet.status = 2; bet.win_amount = 0
lost_bet(bet) == [bet EXCEPT !.status = 2, !.win_amount = 0]

\* the win branch: the payout leaves the pool for the payee, the bet is won
win_branch(bet, payee, wd) ==
    LET win_amount == wd.win_amount.v
        balance == debit_pool(pool.balance, win_amount)
        total_wins == checked_add(U64(config.total_wins), 1)
    IN  IF IsNone(wd.win_amount) THEN Fail("MathOverflow")
        ELSE IF ~(win_amount <= pool.balance) THEN Fail("InsufficientFunds")
        ELSE IF ~CanTransfer(lamports, PoolPda, payee, win_amount)
             THEN Fail("InsufficientLamports")
        ELSE IF IsNone(balance) \/ IsNone(total_wins) THEN Fail("MathOverflow")
        ELSE [ err |-> "Ok",
               lamports |-> Transfer(lamports, PoolPda, payee, win_amount),
               pool |-> [pool EXCEPT !.balance = balance.v,
                                     !.last_winner = Some(payee),
                                     !.last_win_timestamp = Some(now),
                                     !.bets_since_win = 0],
               bet |-> won_bet(bet, win_amount),
               total_wins |-> total_wins.v,
               win_amount |-> win_amount ]

\* a loss that leaves the bet as it was
loss_branch_unmarked(bet) ==
    [ err |-> "Ok", lamports |-> lamports, pool |-> pool, bet |-> bet,
      total_wins |-> config.total_wins, win_amount |-> 0 ]

\* the loss branch: the bet is lost, nothing is paid
loss_branch(bet) ==
    [ err |-> "Ok", lamports |-> lamports, pool |-> pool,
      bet |-> lost_bet(bet),
      total_wins |-> config.total_wins, win_amount |-> 0 ]

\* a reset that pays the whole threshold out
reset_payout_whole(reset_threshold) == U64(reset_threshold)

\* pool.reset_threshold.checked_div(2)
reset_payout_of(reset_threshold) == checked_div(U64(reset_threshold), 2)

\* the reset branch, on the pool and the balances as the win or loss branch
\* leaves them: half the threshold leaves the pool for the payee
reset_branch(payee, w) ==
    LET rp == reset_payout_of(w.pool.reset_threshold)
        balance == debit_pool(w.pool.balance, rp.v)
    IN  IF ~should_reset(w.pool)
        THEN [err |-> "Ok", lamports |-> w.lamports, pool |-> w.pool, reset_payout |-> 0]
        ELSE IF IsNone(rp) THEN Fail("MathOverflow")
        ELSE IF ~(rp.v > 0)
             THEN [ err |-> "Ok", lamports |-> w.lamports,
                    pool |-> [w.pool EXCEPT !.bets_since_win = 0],
                    reset_payout |-> 0 ]
        ELSE IF ~CanTransfer(w.lamports, PoolPda, payee, rp.v)
             THEN Fail("InsufficientLamports")
        ELSE IF IsNone(balance) THEN Fail("MathOverflow")
        ELSE [ err |-> "Ok",
               lamports |-> Transfer(w.lamports, PoolPda, payee, rp.v),
               pool |-> [w.pool EXCEPT !.balance = balance.v, !.bets_since_win = 0],
               reset_payout |-> rp.v ]

\* a request marked fulfilled whose result is left empty
fulfilled_request_without_result(request, vrf_result) ==
    [request EXCEPT !.status = 1]

\* vrf_request.status = 1; vrf_request.result = Some(vrf_result)
fulfilled_request(request, vrf_result) ==
    [request EXCEPT !.status = 1, !.result = Some(vrf_result)]

\* the accounts and the outcome a fulfilment commits
fulfilled(bet_key, vrf_key, vrf_result, wd, w, rs) ==
    [ err |-> "Ok",
      config |-> [config EXCEPT !.total_wins = w.total_wins],
      pool |-> rs.pool,
      bets |-> [bets EXCEPT ![bet_key] = w.bet],
      vrf_requests |->
        [vrf_requests EXCEPT ![vrf_key] = fulfilled_request(@, vrf_result)],
      lamports |-> rs.lamports,
      vrf_mod |-> wd.vrf_mod,
      win |-> wd.win,
      multiplier |-> IF wd.win THEN wd.multiplier ELSE 0,
      win_amount |-> w.win_amount,
      reset_payout |-> rs.reset_payout ]

\* the branches of a fulfilment that passed the checks of its request
resolve(bet_key, vrf_key, payee, vrf_result, wd) ==
    LET w == IF wd.win THEN win_branch(bets[bet_key], payee, wd)
             ELSE loss_branch(bets[bet_key])
    IN  IF w.err # "Ok" THEN w
        ELSE LET rs == reset_branch(payee, w)
             IN  IF rs.err # "Ok" THEN rs
                 ELSE fulfilled(bet_key, vrf_key, vrf_result, wd, w, rs)

fulfill_jackpot(bet_key, vrf_key, player, vrf_result) ==
    IF ~request_pending(vrf_requests[vrf_key]) THEN Fail("VrfRequestNotFound")
    ELSE IF ~request_of_bet(vrf_requests[vrf_key], bet_key)
         THEN Fail("InvalidVrfAuthority")
    ELSE IF ~within_timeout(now, vrf_requests[vrf_key]) THEN Fail("VrfTimeout")
    ELSE resolve(bet_key, vrf_key, payout_account(bets[bet_key], player), vrf_result,
                 win_determination(vrf_result, config.win_probability_bps,
                                   pool.balance))

FulfillJackpot ==
    \E bet_key \in DOMAIN bets, vrf_key \in DOMAIN vrf_requests,
       player \in Players, vrf_result \in VrfResults :
        LET r == fulfill_jackpot(bet_key, vrf_key, player, vrf_result)
        IN  /\ hist.calls < MaxCalls
            /\ IF r.err = "Ok"
               THEN /\ config' = r.config
                    /\ pool' = r.pool
                    /\ bets' = r.bets
                    /\ vrf_requests' = r.vrf_requests
                    /\ lamports' = r.lamports
                    /\ hist' = [hist EXCEPT
                                  !.debited = @ + r.win_amount + r.reset_payout,
                                  !.calls = @ + 1]
                    /\ last' = [ op |-> "fulfill_jackpot", err |-> "Ok",
                                 bet |-> bet_key, vrf_request |-> vrf_key,
                                 player |-> player, vrf_result |-> vrf_result,
                                 vrf_mod |-> r.vrf_mod,
                                 balance |-> pool.balance,
                                 win |-> r.win, multiplier |-> r.multiplier,
                                 win_amount |-> r.win_amount,
                                 reset_payout |-> r.reset_payout ]
               ELSE /\ UNCHANGED <<config, pool, bets, vrf_requests, lamports, hist>>
                    /\ last' = [op |-> "fulfill_jackpot", err |-> r.err]
            /\ UNCHANGED <<reward_vault, reward_claims, now>>

(***************************************************************************)
(* claim_rewards                                                           *)
(***************************************************************************)
\* #[derive(Default)] RewardClaim, as `init_if_needed` creates the account
DefaultRewardClaim ==
    [user |-> DefaultPubkey, total_earned |-> 0, total_claimed |-> 0, last_claim |-> 0]

\* an APY share scaled as a percentage
apy_decimal_of_percent(defi_percentage, apy_bps) ==
    checked_div(checked_mul(U64(defi_percentage), apy_bps), 100)

\* (config.defi_percentage as u64).checked_mul(apy_bps as u64)
\*     .and_then(|x| x.checked_div(10000))
apy_decimal_of(defi_percentage, apy_bps) ==
    checked_div(checked_mul(U64(defi_percentage), apy_bps), BPS_DENOMINATOR)

\* a reward one unit above the floored quotient
rewards_of_one_more(staked_amount, apy_decimal, time_elapsed) ==
    checked_add(
        checked_div(
            checked_div(
                checked_mul(checked_mul(U64(staked_amount), apy_decimal), time_elapsed),
                BPS_DENOMINATOR),
            year_seconds),
        1)

\* staked_amount.checked_mul(apy_decimal).and_then(|x| x.checked_mul(time_elapsed))
\*     .and_then(|x| x.checked_div(10000)).and_then(|x| x.checked_div(year_seconds))
rewards_of(staked_amount, apy_decimal, time_elapsed) ==
    checked_div(
        checked_div(
            checked_mul(checked_mul(U64(staked_amount), apy_decimal), time_elapsed),
            BPS_DENOMINATOR),
        year_seconds)

\* apy_decimal and rewards as the handler chains them
computed_rewards(staked_amount, defi_percentage, apy_bps, time_elapsed) ==
    LET ad == apy_decimal_of(defi_percentage, apy_bps)
    IN  IF IsNone(ad) THEN NoneU64
        ELSE rewards_of(staked_amount, ad.v, time_elapsed)

\* the RewardClaim the handler works on: the stored one, initialized when new
opened_claim(stored, user, current_time) ==
    IF stored.user = DefaultPubkey
    THEN [ user |-> user, total_earned |-> 0, total_claimed |-> 0,
           last_claim |-> current_time ]
    ELSE stored

claim_rewards(user) ==
    LET claim_key == RewardClaimPda(user)
        stored == IF claim_key \in DOMAIN reward_claims THEN reward_claims[claim_key]
                  ELSE DefaultRewardClaim
        current_time == now
        reward_claim == opened_claim(stored, user, current_time)
        time_elapsed == current_time - reward_claim.last_claim
        ad == apy_decimal_of(config.defi_percentage, reward_vault.apy_bps)
        rw == computed_rewards(reward_vault.staked_amount, config.defi_percentage,
                               reward_vault.apy_bps, time_elapsed)
        rewards == rw.v
        vault_balance == lamports[RewardVaultPda]
        total_earned == checked_add(U64(reward_claim.total_earned), rewards)
        total_claimed == checked_add(U64(reward_claim.total_claimed), rewards)
        total_rewards_distributed ==
            checked_add(U64(reward_vault.total_rewards_distributed), rewards)
    IN  IF ~(reward_vault.staked_amount > 0) THEN Fail("DefiNotInitialized")
        ELSE IF time_elapsed <= 0 THEN Fail("ClaimPeriodNotStarted")
        ELSE IF IsNone(ad) THEN Fail("MathOverflow")
        ELSE IF IsNone(rw) THEN Fail("MathOverflow")
        ELSE IF ~(rewards > 0) THEN Fail("NoRewardsAvailable")
        ELSE IF ~(vault_balance >= rewards) THEN Fail("InsufficientFunds")
        ELSE IF IsNone(total_earned) \/ IsNone(total_claimed)
                \/ IsNone(total_rewards_distributed)
             THEN Fail("MathOverflow")
        ELSE [ err |-> "Ok",
               reward_claims |->
                 (claim_key :>
                    [reward_claim EXCEPT !.total_earned = total_earned.v,
                                         !.total_claimed = total_claimed.v,
                                         !.last_claim = current_time])
                 @@ reward_claims,
               reward_vault |->
                 [reward_vault EXCEPT
                    !.total_rewards_distributed = total_rewards_distributed.v,
                    !.last_distribution = current_time],
               lamports |-> Transfer(lamports, RewardVaultPda, user, rewards),
               rewards |-> rewards ]

ClaimRewards ==
    \E user \in Players :
        LET r == claim_rewards(user)
        IN  /\ hist.calls < MaxCalls
            /\ IF r.err = "Ok"
               THEN /\ reward_claims' = r.reward_claims
                    /\ hist' = [hist EXCEPT !.calls = @ + 1]
                    /\ reward_vault' = r.reward_vault
                    /\ lamports' = r.lamports
                    /\ last' = [ op |-> "claim_rewards", err |-> "Ok", user |-> user,
                                 rewards |-> r.rewards ]
               ELSE /\ UNCHANGED <<reward_claims, reward_vault, lamports, hist>>
                    /\ last' = [op |-> "claim_rewards", err |-> r.err, user |-> user]
            /\ UNCHANGED <<config, pool, bets, vrf_requests, now>>

(***************************************************************************)
(* update_config                                                           *)
(***************************************************************************)
\* if let Some(v) = field { target = v }
\* a check that any signer passes
is_authority_or_signer(caller) == caller \in {config.authority} \cup Players

\* ctx.accounts.authority.key() == config.authority
is_authority(caller) == caller = config.authority

merged(field, stored) == IF field = None THEN stored ELSE Unwrap(field)

\* require!(mb > 0) of a supplied min_bet
min_bet_ok(min_bet) == min_bet = None \/ Unwrap(min_bet) > 0

\* require!(mxb >= config.min_bet) of a supplied max_bet, after min_bet is stored
max_bet_ok(max_bet, stored_min_bet) ==
    max_bet = None \/ Unwrap(max_bet) >= stored_min_bet

win_probability_ok(wp) == wp = None \/ (Unwrap(wp) > 0 /\ Unwrap(wp) <= 10000)

\* a sum check against the largest u16 instead of 10000
total_percentage_ok_u16(total) == total <= U16_MAX

total_percentage_ok(total) == total <= 10000

update_config(caller, u) ==
    LET jackpot_percentage == merged(u.jackpot_percentage, config.jackpot_percentage)
        house_percentage == merged(u.house_percentage, config.house_percentage)
        defi_percentage == merged(u.defi_percentage, config.defi_percentage)
        min_bet == merged(u.min_bet, config.min_bet)
        max_bet == merged(u.max_bet, config.max_bet)
        win_probability_bps == merged(u.win_probability_bps, config.win_probability_bps)
        total_percentage ==
            checked_add_u16(checked_add_u16(jackpot_percentage, house_percentage),
                            defi_percentage)
    IN  IF ~is_authority(caller) THEN Fail("Unauthorized")
        ELSE IF ~min_bet_ok(u.min_bet) THEN Fail("InvalidConfig")
        ELSE IF ~max_bet_ok(u.max_bet, min_bet) THEN Fail("InvalidConfig")
        ELSE IF ~win_probability_ok(u.win_probability_bps) THEN Fail("InvalidConfig")
        ELSE IF total_percentage = NoneU16 THEN Fail("MathOverflow")
        ELSE IF ~total_percentage_ok(total_percentage) THEN Fail("InvalidConfig")
        ELSE [ err |-> "Ok",
               config |->
                 [config EXCEPT !.jackpot_percentage = jackpot_percentage,
                                !.house_percentage = house_percentage,
                                !.defi_percentage = defi_percentage,
                                !.min_bet = min_bet,
                                !.max_bet = max_bet,
                                !.win_probability_bps = win_probability_bps],
               pool |->
                 [pool EXCEPT
                    !.reset_threshold = merged(u.reset_threshold, pool.reset_threshold),
                    !.milestone_bets = merged(u.milestone_bets, pool.milestone_bets)],
               reward_vault |->
                 [reward_vault EXCEPT !.apy_bps = merged(u.apy_bps, reward_vault.apy_bps)] ]

\* an update that supplies no field
NoUpdate ==
    [ jackpot_percentage |-> None, house_percentage |-> None, defi_percentage |-> None,
      min_bet |-> None, max_bet |-> None, win_probability_bps |-> None,
      reset_threshold |-> None, milestone_bets |-> None, apy_bps |-> None ]

\* the updates the callers send: the first, the fourth and the fifth are
\* rejected by the authority's checks
UpdateRequests ==
    { [NoUpdate EXCEPT !.jackpot_percentage = Some(6000), !.reset_threshold = Some(5),
                       !.apy_bps = Some(500)],
      [NoUpdate EXCEPT !.jackpot_percentage = Some(1000), !.house_percentage = Some(9000),
                       !.defi_percentage = Some(0), !.milestone_bets = Some(1)],
      [NoUpdate EXCEPT !.min_bet = Some(2000)],
      [NoUpdate EXCEPT !.min_bet = Some(0)],
      [NoUpdate EXCEPT !.max_bet = Some(5)],
      [NoUpdate EXCEPT !.win_probability_bps = Some(10000), !.reset_threshold = Some(0),
                       !.milestone_bets = Some(0)] }

UpdateConfig ==
    \E caller \in {Authority} \cup Players, u \in UpdateRequests :
        LET r == update_config(caller, u)
        IN  /\ hist.calls < MaxCalls
            /\ IF r.err = "Ok"
               THEN /\ config' = r.config
                    /\ pool' = r.pool
                    /\ reward_vault' = r.reward_vault
                    /\ hist' = [hist EXCEPT !.calls = @ + 1]
                    /\ last' = [op |-> "update_config", err |-> "Ok", update |-> u]
               ELSE /\ UNCHANGED <<config, pool, reward_vault, hist>>
                    /\ last' = [op |-> "update_config", err |-> r.err, update |-> u]
            /\ UNCHANGED <<bets, vrf_requests, reward_claims, lamports, now>>

(***************************************************************************)
(* withdraw_house                                                          *)
(***************************************************************************)
withdraw_house(caller, house_vault, amount) ==
    LET vault_balance == lamports[house_vault]
    IN  IF ~is_authority(caller) THEN Fail("Unauthorized")
        ELSE IF ~(vault_balance >= amount) THEN Fail("InsufficientFunds")
        ELSE [ err |-> "Ok",
               lamports |-> Transfer(lamports, house_vault, caller, amount) ]

\* amounts the callers ask to withdraw
WithdrawAmounts == {2, 5000}

WithdrawHouse ==
    \E caller \in {Authority} \cup Players, amount \in WithdrawAmounts :
        LET r == withdraw_house(caller, HouseVault, amount)
        IN  /\ hist.calls < MaxCalls
            /\ IF r.err = "Ok"
               THEN /\ lamports' = r.lamports
                    /\ hist' = [hist EXCEPT !.calls = @ + 1]
                    /\ last' = [op |-> "withdraw_house", err |-> "Ok", amount |-> amount]
               ELSE /\ UNCHANGED <<lamports, hist>>
                    /\ last' = [op |-> "withdraw_house", err |-> r.err]
            /\ UNCHANGED <<config, pool, reward_vault, bets, vrf_requests,
                           reward_claims, now>>

(***************************************************************************)
(* The clock (Clock::get()?.unix_timestamp) is monotonic                   *)
(***************************************************************************)
\* a request that was opened and is not fulfilled
open_request(request) == request.status = 0 /\ request.bet # DefaultPubkey

\* The clock is observed while a request is open; advancing it at another
\* time only shifts the timestamps that are recorded later.
Tick ==
        /\ hist.ticks < MaxTicks
        /\ \E k \in DOMAIN vrf_requests : open_request(vrf_requests[k])
        /\ now' = now + TickStep
        /\ hist' = [hist EXCEPT !.ticks = @ + 1]
        /\ last' = [op |-> "tick", err |-> "Ok"]
        /\ UNCHANGED accounts

Next ==
    \/ ContributeBet
    \/ FulfillJackpot
    \/ ClaimRewards
    \/ UpdateConfig
    \/ WithdrawHouse
    \/ Tick

Spec == Init /\ [][Next]_vars

(***************************************************************************)
(* The win determination alone, over random values that use all 8 bytes    *)
(***************************************************************************)
\* win_probability_bps of the configurations
WinThresholds == {1, 15, 1000, 5000, 10000}

\* pool balances
WinBalances == {0, 1, 999, 1000000007}

WinDetermination ==
    \E vrf_result \in WinVrfResults, wp \in WinThresholds, balance \in WinBalances :
        LET wd == win_determination(vrf_result, wp, balance)
        IN  /\ last' = [ op |-> "win_determination", err |-> "Ok",
                         vrf_result |-> vrf_result, win_probability_bps |-> wp,
                         balance |-> balance, vrf_mod |-> wd.vrf_mod,
                         win |-> wd.win, multiplier |-> wd.multiplier,
                         win_amount |-> wd.win_amount ]
            /\ UNCHANGED <<accounts, now, hist>>

SpecWin == Init /\ [][WinDetermination]_vars

(***************************************************************************)
(* C1                                                                      *)
(***************************************************************************)
\* C1: an accepted bet of `amount` is split into shares of exactly
\* floor(amount * percentage / 10000) for the pool, the house and the reward
\* vault, and the three shares together never exceed the amount.
C1_SharesAreFlooredAndBounded ==
    (last.op = "contribute_bet" /\ last.err = "Ok") =>
        /\ config.min_bet <= last.amount /\ last.amount <= config.max_bet
        /\ config.jackpot_percentage + config.house_percentage
             + config.defi_percentage <= 10000
        /\ last.jackpot_contribution
             = (last.amount * config.jackpot_percentage) \div 10000
        /\ last.house_fee = (last.amount * config.house_percentage) \div 10000
        /\ last.defi_contribution
             = (last.amount * config.defi_percentage) \div 10000
        /\ last.jackpot_contribution + last.house_fee + last.defi_contribution
             <= last.amount

\* an accepted bet whose shares lose a remainder to the flooring
C1_Witness ==
    /\ last.op = "contribute_bet" /\ last.err = "Ok"
    /\ last.jackpot_contribution > 0 /\ last.house_fee > 0
    /\ last.defi_contribution > 0
    /\ last.jackpot_contribution + last.house_fee + last.defi_contribution
         < last.amount

(***************************************************************************)
(* C2                                                                      *)
(***************************************************************************)
\* C2: in every reachable state pool.balance is not negative and equals the
\* jackpot contributions credited so far minus the win and reset payouts
\* debited so far.
C2_BalanceIsCreditsMinusDebits ==
    /\ pool.balance >= 0
    /\ pool.balance = hist.credited - hist.debited

\* a fulfilment that paid both a win and a reset out of a credited pool
C2_Witness ==
    /\ last.op = "fulfill_jackpot" /\ last.err = "Ok"
    /\ last.win_amount > 0 /\ last.reset_payout > 0
    /\ hist.credited > hist.debited

(***************************************************************************)
(* C3                                                                      *)
(***************************************************************************)
\* 256^(i-1) mod 10000, the weight of byte i of a little-endian value
ByteWeight == <<1, 256, 5536, 7216, 7296, 7776, 656, 7936>>

RECURSIVE WeightedSum(_, _)
WeightedSum(b, i) ==
    IF i > 8 THEN 0 ELSE (b[i] * ByteWeight[i] + WeightedSum(b, i + 1)) % 10000

\* C3: with m the little-endian u64 of the first 8 random bytes modulo 10000
\* and wp the win probability, the bet wins exactly when m < wp, and the
\* tier is 10000 when m < wp div 10, 5000 when m < wp div 2, 2500 otherwise;
\* for wp = 1000: m = 50 gives 10000, 400 gives 5000, 900 gives 2500, and
\* 1500 loses. The outcome is a function of the random value, wp and the
\* balance.
C3_WinDecisionAndTiers ==
    (last.op = "win_determination") =>
        LET m == WeightedSum(last.vrf_result, 1)
            wp == last.win_probability_bps
        IN  /\ last.vrf_mod = m
            /\ last.win = (m < wp)
            /\ (m < wp) =>
                  last.multiplier = IF m < wp \div 10 THEN 10000
                                    ELSE IF m < wp \div 2 THEN 5000
                                    ELSE 2500
            /\ (wp = 1000 /\ m = 50) => (last.win /\ last.multiplier = 10000)
            /\ (wp = 1000 /\ m = 400) => (last.win /\ last.multiplier = 5000)
            /\ (wp = 1000 /\ m = 900) => (last.win /\ last.multiplier = 2500)
            /\ (wp = 1000 /\ m = 1500) => ~last.win
            /\ last = [last EXCEPT
                         !.vrf_mod = vrf_mod(last.vrf_result),
                         !.win = is_win(vrf_mod(last.vrf_result), wp),
                         !.multiplier =
                             win_multiplier(vrf_mod(last.vrf_result), wp),
                         !.win_amount =
                             win_amount_of(last.balance,
                                 win_multiplier(vrf_mod(last.vrf_result), wp))]

\* a random value whose high bytes are set lands in the middle tier
C3_Witness ==
    /\ last.op = "win_determination"
    /\ last.vrf_result[7] > 0
    /\ last.win_probability_bps = 1000
    /\ last.vrf_mod = 50
    /\ last.win /\ last.multiplier = 10000

(***************************************************************************)
(* C4                                                                      *)
(***************************************************************************)
\* floor(balance * multiplier / 10000), computed by quotient and remainder
FlooredProduct(balance, multiplier) ==
    (balance \div 10000) * multiplier
      + ((balance % 10000) * multiplier) \div 10000

\* C4: the payout of a win is floor(pool.balance * multiplier / 10000), it
\* never exceeds pool.balance, and no fulfilment fails with
\* InsufficientFunds.
C4_PayoutWithinBalance ==
    /\ \A bet_key \in DOMAIN bets, vrf_key \in DOMAIN vrf_requests,
          player \in Players, vrf_result \in VrfResults :
          LET r == fulfill_jackpot(bet_key, vrf_key, player, vrf_result)
          IN  /\ r.err # "InsufficientFunds"
              /\ (r.err = "Ok" /\ r.win) =>
                    /\ r.win_amount = FlooredProduct(pool.balance, r.multiplier)
                    /\ r.win_amount <= pool.balance
    /\ (last.op = "fulfill_jackpot" /\ last.err = "Ok" /\ last.win) =>
          /\ last.win_amount = FlooredProduct(last.balance, last.multiplier)
          /\ last.win_amount <= last.balance
    /\ last.op = "fulfill_jackpot" => last.err # "InsufficientFunds"

\* a win in the top tier pays the whole pool out
C4_Witness ==
    /\ last.op = "fulfill_jackpot" /\ last.err = "Ok" /\ last.win
    /\ last.multiplier = 10000
    /\ last.balance > 0 /\ last.win_amount = last.balance

(***************************************************************************)
(* C5                                                                      *)
(***************************************************************************)
\* a step in which a FulfillJackpot call succeeded
FulfillCommitted ==
    /\ last'.op = "fulfill_jackpot" /\ last'.err = "Ok"
    /\ hist'.calls = hist.calls + 1

\* C5: a FulfillJackpot call on a request that is not pending fails and
\* leaves the pool, the bets, the config and the fund balances as they were;
\* a resolved bet and a fulfilled request never change again, a fulfilment
\* only succeeds on a pending bet and a pending request, and total_wins
\* counts each won bet once.
C5_FulfilledRequestIsFinal ==
    /\ [](/\ \A bet_key \in DOMAIN bets, vrf_key \in DOMAIN vrf_requests,
                player \in Players, vrf_result \in VrfResults :
                vrf_requests[vrf_key].status # 0 =>
                    fulfill_jackpot(bet_key, vrf_key, player, vrf_result).err
                        = "VrfRequestNotFound"
          /\ config.total_wins
                = Cardinality({k \in DOMAIN bets : bets[k].status = 1}))
    /\ [][/\ (last'.op = "fulfill_jackpot" /\ last'.err # "Ok")
                => UNCHANGED accounts
          /\ \A k \in DOMAIN vrf_requests :
                vrf_requests[k].status # 0 => vrf_requests'[k] = vrf_requests[k]
          /\ \A k \in DOMAIN bets :
                bets[k].status # 0 => bets'[k] = bets[k]
          /\ FulfillCommitted =>
                /\ bets[last'.bet].status = 0
                /\ vrf_requests[last'.vrf_request].status = 0]_vars

\* a call on a fulfilled request of a won bet was rejected
C5_Witness ==
    /\ last.op = "fulfill_jackpot" /\ last.err = "VrfRequestNotFound"
    /\ \E k \in DOMAIN bets :
          /\ bets[k].status = 1
          /\ vrf_requests[VrfRequestPda(k)].status = 1

(***************************************************************************)
(* C6                                                                      *)
(***************************************************************************)
\* the statement as the specification words it: every call made 3600
\* seconds or more after the timestamp of an opened request fails with
\* VrfTimeout
C6_EveryLateCallFailsWithVrfTimeout ==
    \A bet_key \in DOMAIN bets, vrf_key \in DOMAIN vrf_requests,
       player \in Players, vrf_result \in VrfResults :
        LET request == vrf_requests[vrf_key]
        IN  (request.bet # DefaultPubkey /\ now - request.timestamp >= 3600) =>
                fulfill_jackpot(bet_key, vrf_key, player, vrf_result).err
                    = "VrfTimeout"

\* C6: a FulfillJackpot call made when now - request.timestamp >= 3600
\* (exactly 3600 included) fails for every random value and changes no
\* record and no balance; it fails with VrfTimeout when the request is
\* pending and references the bet, with VrfRequestNotFound when the request
\* is not pending, and with InvalidVrfAuthority when a pending request
\* references another bet. A call on a pending request that references the
\* bet with now - request.timestamp < 3600 is not rejected for timeout.
C6_LateCallFailsInCheckOrder ==
    /\ [](\A bet_key \in DOMAIN bets, vrf_key \in DOMAIN vrf_requests,
             player \in Players, vrf_result \in VrfResults :
             LET request == vrf_requests[vrf_key]
                 late == now - request.timestamp >= 3600
                 pending == request.status = 0
                 references == request.bet = bet_key
                 r == fulfill_jackpot(bet_key, vrf_key, player, vrf_result)
             IN  /\ late => r.err # "Ok"
                 /\ (late /\ pending /\ references) => r.err = "VrfTimeout"
                 /\ (late /\ ~pending) => r.err = "VrfRequestNotFound"
                 /\ (late /\ pending /\ ~references)
                       => r.err = "InvalidVrfAuthority"
                 /\ (~late /\ pending /\ references) => r.err # "VrfTimeout")
    /\ [][(last'.op = "fulfill_jackpot" /\ last'.err = "VrfTimeout")
             => UNCHANGED accounts]_vars

\* a call exactly 3600 seconds after the request was rejected for timeout
C6_Witness ==
    /\ last.op = "fulfill_jackpot" /\ last.err = "VrfTimeout"
    /\ \E k \in DOMAIN vrf_requests :
          /\ open_request(vrf_requests[k])
          /\ now - vrf_requests[k].timestamp = 3600

(***************************************************************************)
(* C7                                                                      *)
(***************************************************************************)
\* C7: every win payout and every reset payout of a FulfillJackpot call is
\* credited to bet.player of the bet being fulfilled, whatever player
\* account the caller supplies, and pool.last_winner becomes bet.player.
C7_PayoutsGoToBetPlayer ==
    [][FulfillCommitted =>
          LET owner == bets[last'.bet].player
              paid == last'.win_amount + last'.reset_payout
          IN  /\ lamports'[owner] = lamports[owner] + paid
              /\ last'.win => pool'.last_winner = Some(owner)]_vars

(***************************************************************************)
(* C8                                                                      *)
(***************************************************************************)
\* C8: a ClaimRewards call of a new claimant at time t, made while
\* staked_amount > 0, leaves that claimant a ledger with last_claim = t,
\* from which a later call can pay a reward.
C8_FirstClaimOpensLedger ==
    (last.op = "claim_rewards" /\ reward_vault.staked_amount > 0) =>
        /\ RewardClaimPda(last.user) \in DOMAIN reward_claims
        /\ reward_claims[RewardClaimPda(last.user)].user = last.user
        /\ reward_claims[RewardClaimPda(last.user)].last_claim <= now

(***************************************************************************)
(* C9                                                                      *)
(***************************************************************************)
\* C9: in every reachable state the stored bet bounds satisfy
\* 0 < min_bet <= max_bet.
C9_BetBoundsOrdered ==
    /\ 0 < config.min_bet
    /\ config.min_bet <= config.max_bet

(***************************************************************************)
(* C10                                                                     *)
(***************************************************************************)
\* the sum of the percentages an update would store
MergedPercentageSum(u) ==
    merged(u.jackpot_percentage, config.jackpot_percentage)
      + merged(u.house_percentage, config.house_percentage)
      + merged(u.defi_percentage, config.defi_percentage)

\* C10: an UpdateConfig call whose merged percentages sum above 10000 is
\* rejected and leaves Config, JackpotPool and RewardVault unchanged, and
\* the stored percentages sum to at most 10000 in every reachable state.
C10_PercentageSumIsBounded ==
    /\ [](/\ config.jackpot_percentage + config.house_percentage
               + config.defi_percentage <= 10000
          /\ \A caller \in {Authority} \cup Players, u \in UpdateRequests :
                MergedPercentageSum(u) > 10000
                    => update_config(caller, u).err # "Ok")
    /\ [][(last'.op = "update_config" /\ last'.err # "Ok")
             => UNCHANGED <<config, pool, reward_vault>>]_vars

\* the authority's update of a pool, a vault and a percentage field was
\* rejected because the merged percentages sum above 10000
C10_Witness ==
    /\ last.op = "update_config" /\ last.err = "InvalidConfig"
    /\ MergedPercentageSum(last.update) > 10000
    /\ last.update.reset_threshold # None /\ last.update.apy_bps # None
    /\ pool.reset_threshold # Unwrap(last.update.reset_threshold)
    /\ reward_vault.apy_bps # Unwrap(last.update.apy_bps)

(***************************************************************************)
(* C11                                                                     *)
(***************************************************************************)
\* C11: on every successful FulfillJackpot the reset fires exactly when
\* reset_threshold > 0 and the balance the win or loss branch leaves is at
\* least reset_threshold, whether the bet won or lost; when it fires it
\* pays floor(reset_threshold / 2) out of the pool to the player account of
\* the call, decreases pool.balance by that amount once and sets
\* bets_since_win to 0; when it does not fire it changes nothing.
C11_ResetFiresOnThreshold ==
    [][FulfillCommitted =>
          LET after_branch == pool.balance - last'.win_amount
              threshold == pool.reset_threshold
              fires == threshold > 0 /\ after_branch >= threshold
              payout == IF fires THEN threshold \div 2 ELSE 0
          IN  /\ last'.reset_payout = payout
              /\ pool'.balance = after_branch - payout
              /\ pool'.reset_threshold = threshold
              /\ pool'.bets_since_win =
                    IF fires \/ last'.win THEN 0 ELSE pool.bets_since_win
              /\ lamports'[PoolPda]
                    = lamports[PoolPda] - last'.win_amount - payout
              /\ lamports'[last'.player]
                    = lamports[last'.player] + last'.win_amount + payout]_vars

\* a win left the balance above the threshold, the reset paid half the
\* threshold once, and the balance is still above the threshold
C11_Witness ==
    /\ last.op = "fulfill_jackpot" /\ last.err = "Ok"
    /\ last.win /\ last.win_amount > 0
    /\ pool.reset_threshold > 1
    /\ last.reset_payout = pool.reset_threshold \div 2
    /\ pool.balance >= pool.reset_threshold

(***************************************************************************)
(* C12                                                                     *)
(***************************************************************************)
\* C12: a successful FulfillJackpot that wins decreases pool.balance by
\* win_amount (and by the reset payout when the reset fires), sets
\* last_winner and last_win_timestamp, sets bets_since_win to 0, marks the
\* bet won with its win_amount and adds 1 to total_wins; one that loses
\* marks the bet lost with win_amount 0, keeps total_wins, last_winner and
\* last_win_timestamp, pays nothing for the win and, when the reset does
\* not fire, keeps the pool and every balance. In both cases the request
\* becomes fulfilled with the supplied result and total_bets is unchanged.
C12_WinAndLossEffects ==
    [][FulfillCommitted =>
          LET b == last'.bet
              k == last'.vrf_request
          IN  /\ last'.win =>
                    /\ pool'.balance
                          = pool.balance - last'.win_amount - last'.reset_payout
                    /\ pool'.last_winner = Some(last'.player)
                    /\ pool'.last_win_timestamp = Some(now)
                    /\ pool'.bets_since_win = 0
                    /\ bets'[b] = [bets[b] EXCEPT !.status = 1,
                                                  !.win_amount = last'.win_amount]
                    /\ config'.total_wins = config.total_wins + 1
              /\ ~last'.win =>
                    /\ last'.win_amount = 0
                    /\ bets'[b] = [bets[b] EXCEPT !.status = 2, !.win_amount = 0]
                    /\ config'.total_wins = config.total_wins
                    /\ pool'.last_winner = pool.last_winner
                    /\ pool'.last_win_timestamp = pool.last_win_timestamp
                    /\ pool'.balance = pool.balance - last'.reset_payout
                    /\ lamports'[PoolPda] = lamports[PoolPda] - last'.reset_payout
                    /\ last'.reset_payout = 0 =>
                          /\ pool' = pool
                          /\ lamports' = lamports
              /\ vrf_requests'[k] =
                    [vrf_requests[k] EXCEPT !.status = 1,
                                            !.result = Some(last'.vrf_result)]
              /\ config' = [config EXCEPT !.total_wins = config'.total_wins]
              /\ \A o \in DOMAIN bets \ {b} : bets'[o] = bets[o]
              /\ \A o \in DOMAIN vrf_requests \ {k} :
                    vrf_requests'[o] = vrf_requests[o]
              /\ UNCHANGED <<reward_vault, reward_claims>>]_vars

\* a loss below the reset threshold: the bet is lost and the pool keeps the
\* bets it counted
C12_Witness ==
    /\ last.op = "fulfill_jackpot" /\ last.err = "Ok"
    /\ ~last.win /\ last.reset_payout = 0
    /\ bets[last.bet].status = 2 /\ bets[last.bet].win_amount = 0
    /\ vrf_requests[last.vrf_request].result = Some(last.vrf_result)
    /\ pool.bets_since_win > 0 /\ pool.balance > 0

(***************************************************************************)
(* C13                                                                     *)
(***************************************************************************)
\* a step in which a ContributeBet call succeeded
ContributeCommitted ==
    /\ last'.op = "contribute_bet" /\ last'.err = "Ok"
    /\ hist'.calls = hist.calls + 1

\* C13: a successful ContributeBet adds the jackpot share to pool.balance,
\* the reserve share to staked_amount, 1 to total_bets and 1 to
\* bets_since_win, and creates a bet with the caller as player, the given
\* amount, status pending and win_amount 0; total_wins, last_winner, the
\* configuration parameters and total_rewards_distributed are unchanged.
C13_ContributeEffects ==
    [][ContributeCommitted =>
          LET key == BetPda(last'.player, last'.amount)
          IN  /\ pool' = [pool EXCEPT
                            !.balance = @ + last'.jackpot_contribution,
                            !.bets_since_win = @ + 1]
              /\ reward_vault' = [reward_vault EXCEPT
                                    !.staked_amount = @ + last'.defi_contribution]
              /\ config' = [config EXCEPT !.total_bets = @ + 1]
              /\ key \notin DOMAIN bets
              /\ DOMAIN bets' = DOMAIN bets \cup {key}
              /\ bets'[key].player = last'.player
              /\ bets'[key].amount = last'.amount
              /\ bets'[key].status = 0
              /\ bets'[key].win_amount = 0
              /\ bets'[key].timestamp = now
              /\ \A o \in DOMAIN bets : bets'[o] = bets[o]
              /\ UNCHANGED reward_claims]_vars

\* the second bet of a behaviour was accepted after a win was recorded
C13_Witness ==
    /\ last.op = "contribute_bet" /\ last.err = "Ok"
    /\ last.jackpot_contribution > 0 /\ last.defi_contribution > 0
    /\ bets[BetPda(last.player, last.amount)].status = 0
    /\ config.total_bets = 2 /\ config.total_wins = 1
    /\ pool.last_winner # None

C15_RequestResolvesItsOwnBet ==
    /\ [](\A bet_key \in DOMAIN bets, vrf_key \in DOMAIN vrf_requests,
             player \in Players, vrf_result \in VrfResults :
             (/\ vrf_requests[vrf_key].status = 0
              /\ vrf_requests[vrf_key].bet # bet_key) =>
                 fulfill_jackpot(bet_key, vrf_key, player, vrf_result).err
                     = "InvalidVrfAuthority")
    /\ [][/\ (last'.op = "fulfill_jackpot" /\ last'.err = "InvalidVrfAuthority")
                => UNCHANGED accounts
          /\ FulfillCommitted =>
                /\ vrf_requests[last'.vrf_request].bet = last'.bet
                /\ last'.vrf_request = VrfRequestPda(last'.bet)
          /\ \A k \in DOMAIN bets :
                bets'[k].status # bets[k].status =>
                    /\ FulfillCommitted
                    /\ last'.bet = k
                    /\ last'.vrf_request = VrfRequestPda(k)
          /\ \A k \in DOMAIN vrf_requests :
                vrf_requests'[k].status # vrf_requests[k].status =>
                    /\ FulfillCommitted
                    /\ last'.vrf_request = k
                    /\ VrfRequestPda(last'.bet) = k]_vars

\* two opened requests, and a call that paired one with the bet of the
\* other was rejected
C15_Witness ==
    /\ last.op = "fulfill_jackpot" /\ last.err = "InvalidVrfAuthority"
    /\ Cardinality(DOMAIN bets) = 2
    /\ \A k \in DOMAIN vrf_requests : open_request(vrf_requests[k])

(***************************************************************************)
(* The reward computation alone, over reserves, rates and elapsed times    *)
(***************************************************************************)
\* reward_vault.staked_amount
RewardStakes == {1000000, 999999999}

\* config.defi_percentage
RewardDefiPercentages == {100, 2500, 10000}

\* reward_vault.apy_bps
RewardApys == {0, 500, 65535}

\* seconds since the last claim: a second, an hour, a year
RewardElapsed == {1, 3600, 31536000}

\* multiples of the elapsed time
RewardMultiples == {1, 2, 3}

RewardComputation ==
    \E user \in Players, staked \in RewardStakes,
       defi \in RewardDefiPercentages, apy \in RewardApys,
       t \in RewardElapsed, k \in RewardMultiples :
        /\ last' = [ op |-> "computed_rewards", err |-> "Ok", user |-> user,
                     staked_amount |-> staked, defi_percentage |-> defi,
                     apy_bps |-> apy, time_elapsed |-> t, multiple |-> k,
                     rewards |-> computed_rewards(staked, defi, apy, t),
                     rewards_multiple |->
                         computed_rewards(staked, defi, apy, k * t) ]
        /\ UNCHANGED <<accounts, now, hist>>

SpecReward == Init /\ [][RewardComputation]_vars

(***************************************************************************)
(* C16                                                                     *)
(***************************************************************************)
\* staked_amount * apy_decimal * elapsed, in decimal digits
RewardProduct(staked, apy_decimal, elapsed) ==
    Mul(Mul(Digits(staked), apy_decimal), elapsed)

\* r * 10000 * 31536000, in decimal digits
TimesYearOfBps(r) == Mul(Mul(Digits(r), 10000), 31536000)

\* r = floor(product / 10000 / 31536000), stated without a division
IsFlooredReward(r, product) ==
    /\ LessEq(TimesYearOfBps(r), product)
    /\ Less(product, TimesYearOfBps(r + 1))

\* C16: where no intermediate product exceeds 64 bits, the reward equals
\* floor(staked_amount * floor(defi_bp * apy_bp / 10000) * elapsed / 10000
\* / 31536000); staked = 1000000, defi_bp = 100, apy_bp = 500 and
\* elapsed = 31536000 give 500; and the reward depends on the whole reserve,
\* the rates and the elapsed time, not on the claimant.
C16_RewardFormula ==
    (last.op = "computed_rewards") =>
        LET apy_decimal == (last.defi_percentage * last.apy_bps) \div 10000
            product == RewardProduct(last.staked_amount, apy_decimal,
                                     last.time_elapsed)
        IN  /\ IsNone(last.rewards) <=> Less(U64_MAX, product)
            /\ ~IsNone(last.rewards) =>
                  /\ last.rewards.tag = "int"
                  /\ IsFlooredReward(last.rewards.v, product)
            /\ (/\ last.time_elapsed = 31536000
                /\ last.staked_amount <= 1000000 /\ apy_decimal <= 2000
                /\ (last.staked_amount * apy_decimal) % 10000 = 0
                /\ ~IsNone(last.rewards)) =>
                  last.rewards.v = (last.staked_amount * apy_decimal) \div 10000
            /\ (/\ last.staked_amount = 1000000 /\ last.defi_percentage = 100
                /\ last.apy_bps = 500 /\ last.time_elapsed = 31536000) =>
                  last.rewards = U64(500)
            /\ \A user \in Players :
                  [last EXCEPT !.user = user] =
                      [last EXCEPT
                         !.user = user,
                         !.rewards =
                             computed_rewards(last.staked_amount,
                                 last.defi_percentage, last.apy_bps,
                                 last.time_elapsed)]

\* the example of the specification: a reserve of 1000000 at 100 bp of
\* 500 bp over a year yields 500
C16_Witness ==
    /\ last.op = "computed_rewards"
    /\ last.staked_amount = 1000000 /\ last.defi_percentage = 100
    /\ last.apy_bps = 500 /\ last.time_elapsed = 31536000
    /\ last.rewards = U64(500)

(***************************************************************************)
(* C17                                                                     *)
(***************************************************************************)
\* both rewards of the last computation are within 64 bits
RewardsInBounds ==
    /\ last.op = "computed_rewards"
    /\ ~IsNone(last.rewards) /\ ~IsNone(last.rewards_multiple)

\* C17 as stated: for fixed staked_amount, defi_bp and apy_bp, every t > 0
\* and every k >= 1 within 64-bit bounds, reward(k * t) = k * reward(t).
C17_RewardIsLinearInElapsed ==
    RewardsInBounds =>
        last.rewards_multiple.v = last.multiple * last.rewards.v

\* C17, amended: the floored reward is superadditive in elapsed and within
\* k - 1 of linear: k * reward(t) <= reward(k * t) <= k * reward(t) + (k - 1),
\* with equality where staked_amount * apy_decimal * t is a multiple of
\* 10000 * 31536000.
C17_RewardIsLinearUpToFlooring ==
    RewardsInBounds =>
        LET k == last.multiple
            apy_decimal == (last.defi_percentage * last.apy_bps) \div 10000
            product == RewardProduct(last.staked_amount, apy_decimal,
                                     last.time_elapsed)
        IN  /\ k * last.rewards.v <= last.rewards_multiple.v
            /\ last.rewards_multiple.v <= k * last.rewards.v + (k - 1)
            /\ (TimesYearOfBps(last.rewards.v) = product) =>
                  last.rewards_multiple.v = k * last.rewards.v

\* a reserve whose reward over twice the time exceeds twice the reward
C17_Witness ==
    /\ RewardsInBounds
    /\ last.multiple = 2
    /\ last.rewards.v > 0
    /\ last.rewards_multiple.v = 2 * last.rewards.v + 1

(***************************************************************************)
(* C18                                                                     *)
(***************************************************************************)
\* C18, the part about the reserve: staked_amount never decreases, and no
\* step other than a ContributeBet changes it.
C18_StakedAmountNeverDecreases ==
    [][/\ reward_vault'.staked_amount >= reward_vault.staked_amount
       /\ (reward_vault'.staked_amount # reward_vault.staked_amount) =>
             ContributeCommitted]_vars

\* C18, the part about a successful ClaimRewards has no case: every
\* ClaimRewards call fails and no RewardClaim is ever stored, so
\* total_claimed <= total_earned is never put to the test.
C18_NoClaimRewardsSucceeds ==
    /\ (last.op = "claim_rewards") =>
          last.err \in {"DefiNotInitialized", "ClaimPeriodNotStarted"}
    /\ DOMAIN reward_claims = {}
    /\ reward_vault.total_rewards_distributed = 0
    /\ \A user \in Players : claim_rewards(user).err # "Ok"

(***************************************************************************)
(* C19                                                                     *)
(***************************************************************************)
\* amounts around the balance of the house vault
AmountsAroundHouseBalance ==
    {0, 2, lamports[HouseVault], lamports[HouseVault] + 1, 5000}

\* a call of UpdateConfig or WithdrawHouse that was rejected
AuthorityCallRejected ==
    /\ last'.op \in {"update_config", "withdraw_house"}
    /\ last'.err # "Ok"

\* C19: UpdateConfig and WithdrawHouse called by anyone but the stored
\* authority fail with Unauthorized; WithdrawHouse by the authority for more
\* than the house vault holds fails with InsufficientFunds; a rejected call
\* changes no record and no balance; and the stored authority is the one
\* Initialize stored, after every step.
C19_AuthorityChecks ==
    /\ [](/\ config.authority = Authority
          /\ \A caller \in Players :
                /\ \A u \in UpdateRequests \cup {NoUpdate} :
                      update_config(caller, u).err = "Unauthorized"
                /\ \A amount \in AmountsAroundHouseBalance :
                      withdraw_house(caller, HouseVault, amount).err = "Unauthorized"
          /\ \A amount \in AmountsAroundHouseBalance :
                withdraw_house(config.authority, HouseVault, amount).err =
                    IF amount > lamports[HouseVault] THEN "InsufficientFunds"
                    ELSE "Ok")
    /\ [][/\ config'.authority = config.authority
          /\ AuthorityCallRejected =>
                /\ last'.err \in {"Unauthorized", "InsufficientFunds",
                                  "InvalidConfig", "MathOverflow"}
                /\ UNCHANGED accounts]_vars

\* a player was just refused a withdrawal from a funded house vault, from
\* which the authority could not take 5000 either
C19_Witness ==
    /\ last.op = "withdraw_house" /\ last.err = "Unauthorized"
    /\ lamports[HouseVault] > 0
    /\ withdraw_house(config.authority, HouseVault, 5000).err = "InsufficientFunds"
    /\ \E caller \in Players :
          withdraw_house(caller, HouseVault, 2).err = "Unauthorized"

(***************************************************************************)
(* C20                                                                     *)
(***************************************************************************)
\* the bet a request account was created with (its address is derived from
\* the address of the bet)
BetOfRequest(vrf_key) == CHOOSE b \in DOMAIN bets : VrfRequestPda(b) = vrf_key

\* a pending request whose timeout window has closed
Expired(request, clock) ==
    request.status = 0 /\ clock - request.timestamp >= timeout

RequestOpened(bet_key) ==
    LET request == vrf_requests'[VrfRequestPda(bet_key)]
    IN  /\ request.bet = bet_key
        /\ request.player = bets'[bet_key].player
        /\ request.timestamp = now
        /\ request.request_id = request_id_bytes(now)
        /\ request.status = 0 /\ request.result = None
        /\ bets'[bet_key].vrf_request_id = Some(request.request_id)

\* the bet was created without a request link, its request account is as
\* `init` left it
RequestNotOpened(bet_key) ==
    /\ vrf_requests'[VrfRequestPda(bet_key)] = DefaultVrfRequest
    /\ bets'[bet_key].vrf_request_id = None

\* C22: a successful ContributeBet opens a pending request iff
\* milestone_bets = 0, or milestone_bets > 0 and bets_since_win after this
\* contribution's increment is >= milestone_bets; otherwise the bet has no
\* request link. bets_since_win counts the contributions since the last
\* win or reset: a contribution adds 1 and only a successful FulfillJackpot
\* lowers it, to 0; so from the N-th contribution on every contribution
\* opens a request.
C22_RequestOpensAtMilestone ==
    [][/\ ContributeCommitted =>
             LET bet_key == BetPda(last'.player, last'.amount)
                 count == pool.bets_since_win + 1
             IN  /\ pool'.bets_since_win = count
                 /\ pool'.milestone_bets = pool.milestone_bets
                 /\ IF pool.milestone_bets = 0 \/ count >= pool.milestone_bets
                    THEN RequestOpened(bet_key)
                    ELSE RequestNotOpened(bet_key)
       /\ (pool'.bets_since_win < pool.bets_since_win) =>
             /\ FulfillCommitted
             /\ pool'.bets_since_win = 0
             /\ last'.win \/ pool.reset_threshold > 0
       /\ (pool'.bets_since_win > pool.bets_since_win) => ContributeCommitted]_vars

\* with milestone_bets = 1, the contribution after the first one opened a
\* request too
C22_Witness ==
    /\ last.op = "contribute_bet" /\ last.err = "Ok"
    /\ pool.milestone_bets = 1 /\ pool.bets_since_win = 2
    /\ \A k \in DOMAIN vrf_requests : open_request(vrf_requests[k])
    /\ bets[BetPda(last.player, last.amount)].vrf_request_id
          = Some(vrf_requests[VrfRequestPda(BetPda(last.player, last.amount))].request_id)

(***************************************************************************)
(* The checked arithmetic of ContributeBet and FulfillJackpot alone, on    *)
(* amounts and balances around the 64-bit limits                           *)
(***************************************************************************)
\* a u64 from its decimal digits, most significant first
Big(digits) == FromDigits(Reverse(digits))

\* amounts and balances, as decimal digits: small ones, the largest whose
\* product with 10000, 5000, 9000 and 2500 fits 64 bits, each followed by
\* its successor, and u64::MAX
LargeAmounts ==
    { <<5>>, <<1, 0, 0, 0>>,
      <<1, 8, 4, 4, 6, 7, 4, 4, 0, 7, 3, 7, 0, 9, 5, 5>>,
      <<1, 8, 4, 4, 6, 7, 4, 4, 0, 7, 3, 7, 0, 9, 5, 6>>,
      <<2, 0, 4, 9, 6, 3, 8, 2, 3, 0, 4, 1, 2, 1, 7, 2>>,
      <<2, 0, 4, 9, 6, 3, 8, 2, 3, 0, 4, 1, 2, 1, 7, 3>>,
      <<3, 6, 8, 9, 3, 4, 8, 8, 1, 4, 7, 4, 1, 9, 1, 0>>,
      <<3, 6, 8, 9, 3, 4, 8, 8, 1, 4, 7, 4, 1, 9, 1, 1>>,
      <<7, 3, 7, 8, 6, 9, 7, 6, 2, 9, 4, 8, 3, 8, 2, 0>>,
      <<7, 3, 7, 8, 6, 9, 7, 6, 2, 9, 4, 8, 3, 8, 2, 1>>,
      Reverse(U64_MAX) }

\* max_bet of a configuration: 1000, or no upper bound below u64::MAX
LargeMaxBets == { <<1, 0, 0, 0>>, Reverse(U64_MAX) }

\* jackpot, house and reward percentages of accepted configurations
OverflowPercentages == { <<10000, 0, 0>>, <<5000, 2500, 2500>>, <<1000, 9000, 0>> }

\* the win multipliers
Multipliers == {2500, 5000, 10000}

\* stored balances and counters, and what is added to them
LargeBalances ==
    { <<0>>, <<1, 0, 0, 0>>,
      <<1, 8, 4, 4, 6, 7, 4, 4, 0, 7, 3, 7, 0, 9, 5, 5, 1, 6, 1, 4>>,
      Reverse(U64_MAX) }

Additions == {0, 1, 2, 1000}

ValidatedShares ==
    \E amount \in LargeAmounts, max_bet \in LargeMaxBets, pc \in OverflowPercentages :
        LET r == validated_shares(Big(amount), U64(config.min_bet), Big(max_bet),
                                  pc[1], pc[2], pc[3])
        IN  /\ last' = [ op |-> "validated_shares", err |-> r.err,
                         amount |-> Big(amount), max_bet |-> Big(max_bet),
                         percentages |-> pc, result |-> r ]
            /\ UNCHANGED <<accounts, now, hist>>

PayoutChecks ==
    \E balance \in LargeAmounts, multiplier \in Multipliers :
        LET r == payout_checks(Big(balance), multiplier)
        IN  /\ last' = [ op |-> "payout_checks", err |-> r.err,
                         balance |-> Big(balance), multiplier |-> multiplier,
                         result |-> r ]
            /\ UNCHANGED <<accounts, now, hist>>

CheckedAddition ==
    \E balance \in LargeBalances, k \in Additions :
        /\ last' = [ op |-> "checked_add", err |-> "Ok",
                     balance |-> Big(balance), addition |-> k,
                     result |-> checked_add(Big(balance), k) ]
        /\ UNCHANGED <<accounts, now, hist>>

SpecOverflow == Init /\ [][ValidatedShares \/ PayoutChecks \/ CheckedAddition]_vars

(***************************************************************************)
(* C23                                                                     *)
(***************************************************************************)
\* x * k >= 2^64, on decimal digits
ProductOverflows(x, k) == Less(U64_MAX, Mul(DigitsOf(x), k))

\* q = floor(x * k / 10000), stated without a division
IsFlooredShare(q, x, k) ==
    /\ LessEq(Mul(DigitsOf(q), 10000), Mul(DigitsOf(x), k))
    /\ Less(Mul(DigitsOf(x), k), Mul(Add(DigitsOf(q), <<1>>), 10000))

\* one of the three products of the last ValidatedShares exceeds 64 bits
SomeShareOverflows ==
    \E i \in 1..3 : ProductOverflows(last.amount, last.percentages[i])

TotalLamports(l) ==
    l[Wallet("alice")] + l[Wallet("bob")] + l[Authority] + l[HouseVault]
      + l[PoolPda] + l[RewardVaultPda]

\* the accounts a caller can pass where the program checks no address
PassableAccounts == Players \cup {Authority, HouseVault, PoolPda, RewardVaultPda}

\* the lamports of the pool account that pool.balance does not record
UnrecordedPoolLamports(l, p) == l[PoolPda] - p.balance

\* C24, the part about the total: no operation creates or destroys
\* lamports, whatever accounts the caller passes.
C24_TotalIsConserved ==
    /\ [](/\ \A player \in Players, amount \in BetAmounts,
                house_vault \in PassableAccounts :
                LET r == contribute_bet(player, amount, house_vault)
                IN  (r.err = "Ok") =>
                       TotalLamports(r.lamports) = TotalLamports(lamports)
          /\ \A bet_key \in DOMAIN bets, vrf_key \in DOMAIN vrf_requests,
                player \in PassableAccounts, vrf_result \in VrfResults :
                LET r == fulfill_jackpot(bet_key, vrf_key, player, vrf_result)
                IN  (r.err = "Ok") =>
                       TotalLamports(r.lamports) = TotalLamports(lamports)
          /\ \A caller \in {Authority}, house_vault \in PassableAccounts,
                amount \in WithdrawAmounts :
                LET r == withdraw_house(caller, house_vault, amount)
                IN  (r.err = "Ok") =>
                       TotalLamports(r.lamports) = TotalLamports(lamports))
    /\ [][TotalLamports(lamports') = TotalLamports(lamports)]_vars

\* C24: every operation conserves funds: the total of all balances is
\* unchanged by every operation; ContributeBet debits the payer exactly
\* jackpot_share + house_share + reserve_share and credits the three
\* destinations with exactly their shares; and the funds held by the pool
\* account minus pool.balance is the same after every operation.
C24_FundsAreConserved ==
    /\ \A player \in Players, amount \in BetAmounts,
          house_vault \in PassableAccounts :
          LET r == contribute_bet(player, amount, house_vault)
          IN  (r.err = "Ok") =>
                 /\ TotalLamports(r.lamports) = TotalLamports(lamports)
                 /\ r.lamports[player] = lamports[player]
                       - (r.jackpot_contribution + r.house_fee + r.defi_contribution)
                 /\ r.lamports[PoolPda] = lamports[PoolPda] + r.jackpot_contribution
                 /\ r.lamports[house_vault] = lamports[house_vault] + r.house_fee
                 /\ r.lamports[RewardVaultPda]
                       = lamports[RewardVaultPda] + r.defi_contribution
                 /\ UnrecordedPoolLamports(r.lamports, r.pool)
                       = UnrecordedPoolLamports(lamports, pool)
    /\ \A bet_key \in DOMAIN bets, vrf_key \in DOMAIN vrf_requests,
          player \in PassableAccounts, vrf_result \in VrfResults :
          LET r == fulfill_jackpot(bet_key, vrf_key, player, vrf_result)
          IN  (r.err = "Ok") =>
                 /\ TotalLamports(r.lamports) = TotalLamports(lamports)
                 /\ UnrecordedPoolLamports(r.lamports, r.pool)
                       = UnrecordedPoolLamports(lamports, pool)
    /\ \A house_vault \in PassableAccounts, amount \in WithdrawAmounts :
          LET r == withdraw_house(Authority, house_vault, amount)
          IN  (r.err = "Ok") =>
                 /\ TotalLamports(r.lamports) = TotalLamports(lamports)
                 /\ UnrecordedPoolLamports(r.lamports, pool)
                       = UnrecordedPoolLamports(lamports, pool)
    /\ TotalLamports(lamports) = 2 * InitialLamports + 2 * RentLamports
    /\ UnrecordedPoolLamports(lamports, pool) = RentLamports

(***************************************************************************)
(* C25                                                                     *)
(***************************************************************************)
\* the bets with status won
WonBets == {k \in DOMAIN bets : bets[k].status = 1}

\* C25: in every reachable state config.total_bets is the number of bets
\* ever created (no bet is ever removed), config.total_wins is the number
\* of bets with status won, and total_wins <= total_bets; a step changes
\* total_bets only by creating a bet and total_wins only by winning one.
C25_CountersCountBets ==
    /\ [](/\ config.total_bets = Cardinality(DOMAIN bets)
          /\ config.total_wins = Cardinality(WonBets)
          /\ config.total_wins <= config.total_bets)
    /\ [][/\ DOMAIN bets \subseteq DOMAIN bets'
          /\ config'.total_bets =
                config.total_bets + (IF ContributeCommitted THEN 1 ELSE 0)
          /\ config'.total_wins =
                config.total_wins
                  + (IF FulfillCommitted /\ last'.win THEN 1 ELSE 0)]_vars

\* two bets were created, one of them was won and the other is pending
C25_Witness ==
    /\ config.total_bets = 2 /\ config.total_wins = 1
    /\ Cardinality(DOMAIN bets) = 2
    /\ \E k \in DOMAIN bets : bets[k].status = 1
    /\ \E k \in DOMAIN bets : bets[k].status = 0

(***************************************************************************)
(* C26                                                                     *)
(***************************************************************************)
\* the bets that were created without an opened request
UnlinkedBets == {k \in DOMAIN bets : bets[k].vrf_request_id = None}

\* C26: a bet created without an opened request is never resolved: its own
\* request account is as `init` left it, every FulfillJackpot call naming
\* the bet fails whatever request, payee and random value are supplied, and
\* the bet is pending and unchanged after every step.
C26_UnlinkedBetIsNeverResolved ==
    /\ [](\A k \in UnlinkedBets :
            /\ bets[k].status = 0 /\ bets[k].win_amount = 0
            /\ vrf_requests[VrfRequestPda(k)] = DefaultVrfRequest
            /\ \A vrf_key \in DOMAIN vrf_requests, player \in PassableAccounts,
                  vrf_result \in VrfResults :
                  fulfill_jackpot(k, vrf_key, player, vrf_result).err
                      \in {"VrfRequestNotFound", "InvalidVrfAuthority"})
    /\ [][/\ \A k \in UnlinkedBets :
                k \in DOMAIN bets' /\ bets'[k] = bets[k]
          /\ \A k \in DOMAIN bets' \ DOMAIN bets :
                (bets'[k].vrf_request_id = None) <=>
                    (pool'.milestone_bets > 0
                       /\ pool'.bets_since_win < pool'.milestone_bets)]_vars

\* a bet without a request is pending next to a bet with a fulfilled
\* request, after the clock has advanced
C26_Witness ==
    /\ now > StartTime
    /\ \E k \in UnlinkedBets : bets[k].status = 0
    /\ \E k \in DOMAIN bets :
          /\ bets[k].vrf_request_id # None /\ bets[k].status # 0
          /\ vrf_requests[VrfRequestPda(k)].status = 1

(***************************************************************************)
(* C27                                                                     *)
(***************************************************************************)
\* C27: a bet is stored at the address of its (player, amount) pair, so
\* each pair has at most one bet; a further ContributeBet of the same
\* player with the same amount fails, whatever the status of the bet and
\* whatever house vault is passed, and a failed ContributeBet changes no
\* record and no balance.
C27_OneBetPerPlayerAndAmount ==
    /\ [](\A k \in DOMAIN bets :
            /\ k = BetPda(bets[k].player, bets[k].amount)
            /\ \A j \in DOMAIN bets :
                  (bets[j].player = bets[k].player /\ bets[j].amount = bets[k].amount)
                      => (j = k)
            /\ \A house_vault \in PassableAccounts :
                  contribute_bet(bets[k].player, bets[k].amount, house_vault)
                      = Fail("AccountAlreadyInUse"))
    /\ [][(last'.op = "contribute_bet" /\ last'.err = "AccountAlreadyInUse") =>
             /\ UNCHANGED <<accounts, hist>>
             /\ DOMAIN bets # {}]_vars

\* a second ContributeBet for the pair of a bet that is already resolved
\* was just rejected
C27_Witness ==
    /\ last.op = "contribute_bet" /\ last.err = "AccountAlreadyInUse"
    /\ Cardinality(DOMAIN bets) = 1
    /\ \A k \in DOMAIN bets : bets[k].status # 0
    /\ config.total_bets = 1

====
